---- MODULE Spec2Model ----
(***************************************************************************)
(* The script-side Page of components/script/page.rs: the reflow dispatch  *)
(* protocol (flush_layout, reflow, join_layout), the synchronous queries   *)
(* built on it, and the layout task at the other end of the channels.      *)
(*                                                                         *)
(* One script task owns all Pages and runs one operation at a time.  An    *)
(* operation runs atomically up to the point where it suspends (the        *)
(* blocking recv() of join_layout, a LayoutRPC call) and is continued from *)
(* there by the step that wakes it.  The rest of an operation that has     *)
(* suspended is kept in cont, the script task's stack.                     *)
(*                                                                         *)
(* Two further parts stand beside the protocol, each with a specification  *)
(* of its own: the tree of Pages (find, remove, iter) and the FontContext  *)
(* of components/gfx/font_context.rs.                                      *)
(***************************************************************************)
EXTENDS Integers, Sequences, FiniteSets, TLC

\* Bounds of the model: reflow requests the script task may dispatch, and
\* skipped reflows its Pages may count, in total.
MaxReflows == 2
MaxAvoided == 2

\* Bound of the tree of Pages: the Pages constructed in all.
MaxNodes == 4

\* The Pages of the tree (each an Rc<Page>), and the pipeline ids they may be
\* constructed with.
Nodes == 1..MaxNodes
Ids == {"a", "b", "c"}

\* Bound of the FontContext: the entries of layout_font_cache, and those of
\* fallback_font_cache.
MaxFonts == 2

\* The font families a style may name, and the family lists of the styles.
Families == {"f1", "f2"}
FamilyLists == {<<>>, <<"f1">>, <<"f2">>, <<"f1", "f2">>, <<"f2", "f1">>}

\* The font_weight, font_style, font_size and font_variant of the styles: a
\* plain one, one that differs from it in the descriptor, and one that
\* differs from it in the size and the variant.
StyleValues ==
    {<<"Weight400", "normal", "Au12", "normal">>,
     <<"Weight700", "italic", "Au12", "normal">>,
     <<"Weight400", "normal", "Au16", "small_caps">>}

\* SpecifiedFontStyle.
Styles ==
    {[font_family |-> l, font_weight |-> v[1], font_style |-> v[2],
      font_size |-> v[3], font_variant |-> v[4]] :
        l \in FamilyLists, v \in StyleValues}

\* The pipeline ids a Page of the script task may have.
Pages == {"p1", "p2"}

\* Option::None, for the Option fields of Page.
None == "None"

\* layout_interface::ReflowQueryType (the node address of a query is dropped).
NoQuery == "NoQuery"
ContentBoxQuery == "ContentBoxQuery"
ContentBoxesQuery == "ContentBoxesQuery"
ReflowQueryType == {NoQuery, ContentBoxQuery, ContentBoxesQuery}

\* layout_interface::ReflowGoal.
ReflowForDisplay == "ReflowForDisplay"
ReflowForScriptQuery == "ReflowForScriptQuery"
ReflowGoal == {ReflowForDisplay, ReflowForScriptQuery}

\* Page.frame: no Frame, a Frame whose document has no root element, or a
\* Frame whose document has one.
FrameNoRoot == "NoRoot"
FrameRoot == "Root"

VARIABLES
    pages,             \* the Pages the script task has constructed
    frame,             \* Page.frame, per Page
    url,               \* Page.url is Some, per Page
    damaged,           \* Page.damaged
    last_reflow_id,    \* Page.last_reflow_id
    avoided_reflows,   \* Page.avoided_reflows
    pending_reflows,   \* Page.pending_reflows
    layout_join_port,  \* Page.layout_join_port: the id of a channel (0: None)
    layout_chan,       \* messages queued on Page.layout_chan, per Page
    layout_task,       \* the layout task of each Page: alive, reflow in hand
    chans,             \* the completion channels created so far
    compositor,        \* set_ready_state(id, PerformingLayout) calls, per Page
    task,              \* the script task: idle, blocked_join, blocked_rpc, failed
    cont,              \* the rest of the suspended operation
    wait,              \* the channel the script task is blocked on (0: none)
    cur,               \* the operation in progress or just returned
    children,          \* Page.children, per Page of the tree
    page_id,           \* Page.id, per Page of the tree (None: not constructed)
    stack,             \* PageIterator.stack
    tree_op,           \* the tree operation that has just returned
    layout_font_cache,    \* FontContext.layout_font_cache
    fallback_font_cache,  \* FontContext.fallback_font_cache
    last_style,           \* FontContext.last_style
    last_fontgroup,       \* FontContext.last_fontgroup
    font_op,              \* the FontContext call that has just returned
    font_cache_task       \* FontContext.font_cache_task: the (family, descriptor)
                          \* pairs it has a template for, where it is steady

pagevars == <<damaged, last_reflow_id, avoided_reflows, layout_join_port>>
treevars == <<children, page_id, stack, tree_op>>
fontvars == <<layout_font_cache, fallback_font_cache, last_style, last_fontgroup,
              font_op, font_cache_task>>
protocolvars == <<pages, frame, url, damaged, last_reflow_id, avoided_reflows,
                  pending_reflows, layout_join_port, layout_chan, layout_task,
                  chans, compositor, task, cont, wait, cur>>
vars == <<protocolvars, treevars, fontvars>>

\* No operation: the value of cur once anything else has happened since the
\* last operation returned.
NoCall == [op |-> "none", page |-> "none", goal |-> "none", q |-> "none",
           damaged0 |-> FALSE, frame0 |-> None, port0 |-> 0, avoided0 |-> 0,
           sent |-> <<>>, waited |-> FALSE, result |-> "none"]

\* One entry of the script task's stack.
Step(k, p, goal, q) == [k |-> k, p |-> p, goal |-> goal, q |-> q]

\* The part of the state an operation of the script task reads and writes.
S == [damaged |-> damaged, last_reflow_id |-> last_reflow_id,
      avoided_reflows |-> avoided_reflows, layout_join_port |-> layout_join_port,
      layout_chan |-> layout_chan, chans |-> chans, compositor |-> compositor,
      task |-> task, cont |-> cont, wait |-> wait, cur |-> cur]

Commit(s) ==
    /\ damaged' = s.damaged
    /\ last_reflow_id' = s.last_reflow_id
    /\ avoided_reflows' = s.avoided_reflows
    /\ layout_join_port' = s.layout_join_port
    /\ layout_chan' = s.layout_chan
    /\ chans' = s.chans
    /\ compositor' = s.compositor
    /\ task' = s.task
    /\ cont' = s.cont
    /\ wait' = s.wait
    /\ cur' = s.cur
    /\ UNCHANGED <<pages, frame, url, pending_reflows, layout_task, treevars, fontvars>>

\* fail!(): the script task unwinds.
Fail(s) == [s EXCEPT !.task = "failed", !.cont = <<>>, !.wait = 0]

Push(s, steps) == [s EXCEPT !.cont = steps \o @]

Return(s, value) == [s EXCEPT !.cur.result = value]

----------------------------------------------------------------------------
\* Page::new, for every Page of ps; f is None, or the frame of the document
\* loaded into each Page since.
New(ps, f) ==
    /\ pages = ps
    /\ frame = [p \in Pages |-> f]
    /\ url = [p \in Pages |-> f # None]
    /\ damaged = [p \in Pages |-> FALSE]
    /\ last_reflow_id = [p \in Pages |-> 0]
    /\ avoided_reflows = [p \in Pages |-> 0]
    /\ pending_reflows = [p \in Pages |-> 0]
    /\ layout_join_port = [p \in Pages |-> 0]
    /\ layout_chan = [p \in Pages |-> <<>>]
    /\ layout_task = [p \in Pages |-> [alive |-> TRUE, reflow |-> 0]]
    /\ chans = <<>>
    /\ compositor = [p \in Pages |-> 0]
    /\ task = "idle"
    /\ cont = <<>>
    /\ wait = 0
    /\ cur = NoCall

\* No tree operation: the value of tree_op once anything else has happened.
NoTreeOp == [op |-> "none", self |-> 0, id |-> None, value |-> 0, parent |-> 0,
             yielded |-> <<>>]

\* No Page of the tree constructed yet.
NoTree ==
    /\ children = [n \in Nodes |-> <<>>]
    /\ page_id = [n \in Nodes |-> None]
    /\ stack = <<>>
    /\ tree_op = NoTreeOp

\* Option<T> of the FontContext: None, and Some(x).
NoneOpt == <<>>
Some(x) == <<x>>

\* No FontContext call: the value of font_op before the first call.
NoFontOp == [style |-> NoneOpt, hit |-> FALSE, yields |-> <<>>, group |-> <<>>]

\* FontContext::new.  The font cache task it is given is left open here: each
\* lookup is answered as the call's templates say.
NewFontContext ==
    /\ font_cache_task = {}
    /\ layout_font_cache = <<>>
    /\ fallback_font_cache = <<>>
    /\ last_style = NoneOpt
    /\ last_fontgroup = NoneOpt
    /\ font_op = NoFontOp

\* The script task with one new Page, and with two Pages whose documents are
\* loaded.
Init == New({"p1"}, None) /\ NoTree /\ NewFontContext
InitPages == New(Pages, FrameRoot) /\ NoTree /\ NewFontContext

----------------------------------------------------------------------------
\* join_layout that leaves the port in the field after joining.
do_join_layout_keeps_port(s, p) ==
    IF s.layout_join_port[p] = 0 THEN s
    ELSE LET c == s.layout_join_port[p]
         IN CASE s.chans[c].st = "signalled" ->
                     [s EXCEPT !.chans[c].st = "received"]
              [] s.chans[c].st = "dropped" -> Fail(s)
              [] OTHER -> [s EXCEPT !.task = "blocked_join", !.wait = c,
                                    !.cur.waited = TRUE]

\* join_layout that takes Err(Disconnected) for a completed reflow.
do_join_layout_ignores_disconnect(s, p) ==
    IF s.layout_join_port[p] = 0 THEN s
    ELSE LET c == s.layout_join_port[p]
             s1 == [s EXCEPT !.layout_join_port[p] = 0]
         IN CASE s.chans[c].st = "signalled" ->
                     [s1 EXCEPT !.chans[c].st = "received"]
              [] s.chans[c].st = "dropped" -> s1
              [] OTHER -> [s1 EXCEPT !.task = "blocked_join", !.wait = c,
                                     !.cur.waited = TRUE]

\* join_layout that clears damaged once it has taken the port.
do_join_layout_clears_damage(s, p) ==
    IF s.layout_join_port[p] = 0 THEN s
    ELSE LET c == s.layout_join_port[p]
             s1 == [s EXCEPT !.layout_join_port[p] = 0, !.damaged[p] = FALSE]
         IN CASE s.chans[c].st = "signalled" ->
                     [s1 EXCEPT !.chans[c].st = "received"]
              [] s.chans[c].st = "dropped" -> Fail(s1)
              [] OTHER -> [s1 EXCEPT !.task = "blocked_join", !.wait = c,
                                     !.cur.waited = TRUE]

\* Page::join_layout up to its blocking recv(): take the port out of the
\* field, then try_recv().
do_join_layout(s, p) ==
    IF s.layout_join_port[p] = 0 THEN s
    ELSE LET c == s.layout_join_port[p]
             s1 == [s EXCEPT !.layout_join_port[p] = 0]
         IN CASE s.chans[c].st = "signalled" ->
                     [s1 EXCEPT !.chans[c].st = "received"]
              [] s.chans[c].st = "dropped" -> Fail(s1)
              [] OTHER -> [s1 EXCEPT !.task = "blocked_join", !.wait = c,
                                     !.cur.waited = TRUE]

\* A dispatch that does not store the new join port in the Page.
do_dispatch_drops_port(s, p, goal, q) ==
    LET c == Len(s.chans) + 1
        id == s.last_reflow_id[p] + 1
        msg == [id |-> id, goal |-> goal, query_type |-> q, script_join_chan |-> c]
        s1 == [s EXCEPT !.compositor[p] = @ + 1,
                        !.chans = Append(@, [owner |-> p, st |-> "pending"]),
                        !.last_reflow_id[p] = id,
                        !.damaged[p] = FALSE]
    IN IF ~url[p] \/ ~layout_task[p].alive
       THEN Fail([s1 EXCEPT !.chans[c].st = "closed"])
       ELSE [s1 EXCEPT !.layout_chan[p] = Append(@, msg),
                       !.cur.sent = Append(@, msg)]

\* A dispatch that does not clear damaged.
do_dispatch_keeps_damage(s, p, goal, q) ==
    LET c == Len(s.chans) + 1
        id == s.last_reflow_id[p] + 1
        msg == [id |-> id, goal |-> goal, query_type |-> q, script_join_chan |-> c]
        s1 == [s EXCEPT !.compositor[p] = @ + 1,
                        !.chans = Append(@, [owner |-> p, st |-> "pending"]),
                        !.layout_join_port[p] = c,
                        !.last_reflow_id[p] = id]
    IN IF ~url[p] \/ ~layout_task[p].alive
       THEN Fail([s1 EXCEPT !.chans[c].st = "closed"])
       ELSE [s1 EXCEPT !.layout_chan[p] = Append(@, msg),
                       !.cur.sent = Append(@, msg)]

\* A dispatch whose request carries the id of the request before it.
do_dispatch_stale_id(s, p, goal, q) ==
    LET c == Len(s.chans) + 1
        id == s.last_reflow_id[p] + 1
        msg == [id |-> s.last_reflow_id[p], goal |-> goal, query_type |-> q,
                script_join_chan |-> c]
        s1 == [s EXCEPT !.compositor[p] = @ + 1,
                        !.chans = Append(@, [owner |-> p, st |-> "pending"]),
                        !.layout_join_port[p] = c,
                        !.last_reflow_id[p] = id,
                        !.damaged[p] = FALSE]
    IN IF ~url[p] \/ ~layout_task[p].alive
       THEN Fail([s1 EXCEPT !.chans[c].st = "closed"])
       ELSE [s1 EXCEPT !.layout_chan[p] = Append(@, msg),
                       !.cur.sent = Append(@, msg)]

\* Page::reflow from the compositor notification to the send on layout_chan.
do_dispatch(s, p, goal, q) ==
    LET c == Len(s.chans) + 1
        id == s.last_reflow_id[p] + 1
        msg == [id |-> id, goal |-> goal, query_type |-> q, script_join_chan |-> c]
        s1 == [s EXCEPT !.compositor[p] = @ + 1,
                        !.chans = Append(@, [owner |-> p, st |-> "pending"]),
                        !.layout_join_port[p] = c,
                        !.last_reflow_id[p] = id,
                        !.damaged[p] = FALSE]
    IN IF ~url[p] \/ ~layout_task[p].alive
       THEN Fail([s1 EXCEPT !.chans[c].st = "closed"])
       ELSE [s1 EXCEPT !.layout_chan[p] = Append(@, msg),
                       !.cur.sent = Append(@, msg)]

\* reflow that dispatches without joining the outstanding reflow.
do_reflow_without_join(s, p, goal, q) ==
    IF frame[p] # FrameRoot THEN s
    ELSE Push([s EXCEPT !.avoided_reflows[p] = 0],
              <<Step("dispatch", p, goal, q)>>)

\* reflow that resets avoided_reflows before it looks at the frame.
do_reflow_resets_first(s, p, goal, q) ==
    IF frame[p] # FrameRoot THEN [s EXCEPT !.avoided_reflows[p] = 0]
    ELSE Push([s EXCEPT !.avoided_reflows[p] = 0],
              <<Step("join_layout", p, goal, q), Step("dispatch", p, goal, q)>>)

\* reflow that waits for the layout run it has requested.
do_reflow_waits(s, p, goal, q) ==
    IF frame[p] # FrameRoot THEN s
    ELSE Push([s EXCEPT !.avoided_reflows[p] = 0],
              <<Step("join_layout", p, goal, q), Step("dispatch", p, goal, q),
                Step("join_layout", p, goal, q)>>)

\* reflow that notifies the compositor before it joins.
do_reflow_notifies_first(s, p, goal, q) ==
    IF frame[p] # FrameRoot THEN s
    ELSE Push([s EXCEPT !.avoided_reflows[p] = 0, !.compositor[p] = @ + 1],
              <<Step("join_layout", p, goal, q), Step("dispatch", p, goal, q)>>)

\* reflow that leaves avoided_reflows as it found it.
do_reflow_keeps_count(s, p, goal, q) ==
    IF frame[p] # FrameRoot THEN s
    ELSE Push(s, <<Step("join_layout", p, goal, q), Step("dispatch", p, goal, q)>>)

\* Page::reflow: nothing without a frame or a document root; else reset
\* avoided_reflows, join, dispatch.
do_reflow(s, p, goal, q) ==
    IF frame[p] # FrameRoot THEN s
    ELSE Push([s EXCEPT !.avoided_reflows[p] = 0],
              <<Step("join_layout", p, goal, q), Step("dispatch", p, goal, q)>>)

\* A flush_layout decision that asks for a display reflow for every query.
flush_goal_always_display(d, q) ==
    IF d \/ q \in {ContentBoxQuery, ContentBoxesQuery}
    THEN <<ReflowForDisplay, TRUE>>
    ELSE <<ReflowForDisplay, FALSE>>

\* The (reflow_goal, force_reflow) pair of Page::flush_layout.
flush_goal(d, q) ==
    IF d THEN <<ReflowForDisplay, TRUE>>
    ELSE IF q \in {ContentBoxQuery, ContentBoxesQuery}
         THEN <<ReflowForScriptQuery, TRUE>>
         ELSE <<ReflowForDisplay, FALSE>>

\* flush_layout that does not count the reflow it skips.
do_flush_layout_uncounted(s, p, q) ==
    LET g == flush_goal(s.damaged[p], q)
    IN IF g[2]
       THEN IF frame[p] = None THEN Fail(s)
            ELSE Push(s, <<Step("reflow", p, g[1], q)>>)
       ELSE s

\* flush_layout that counts a skipped reflow twice.
do_flush_layout_counts_twice(s, p, q) ==
    LET g == flush_goal(s.damaged[p], q)
    IN IF g[2]
       THEN IF frame[p] = None THEN Fail(s)
            ELSE Push(s, <<Step("reflow", p, g[1], q)>>)
       ELSE [s EXCEPT !.avoided_reflows[p] = @ + 2]

\* Page::flush_layout.
do_flush_layout(s, p, q) ==
    LET g == flush_goal(s.damaged[p], q)
    IN IF g[2]
       THEN IF frame[p] = None THEN Fail(s)
            ELSE Push(s, <<Step("reflow", p, g[1], q)>>)
       ELSE [s EXCEPT !.avoided_reflows[p] = @ + 1]

\* Page::layout.
do_layout(s, p) ==
    Push(s, <<Step("flush_layout", p, "none", NoQuery),
              Step("join_layout", p, "none", "none"),
              Step("return", p, "none", "layout_rpc")>>)

\* A geometry query that asks layout_rpc right after the flush, without the
\* join.
do_content_query_without_join(s, p, q) ==
    Push(s, <<Step("flush_layout", p, "none", q),
              Step("rpc", p, "none", q)>>)

\* Page::content_box_query and Page::content_boxes_query.
do_content_query(s, p, q) ==
    Push(s, <<Step("flush_layout", p, "none", q),
              Step("join_layout", p, "none", "none"),
              Step("rpc", p, "none", q)>>)

\* A hit test that flushes and joins before it looks for the root element.
do_hit_test_flushes_first(s, p, call) ==
    IF frame[p] = None THEN Fail(s)
    ELSE IF frame[p] = FrameNoRoot
         THEN Push(s, <<Step("layout", p, "none", "none"),
                        Step("return", p, "none", "None")>>)
         ELSE Push(s, <<Step("layout", p, "none", "none"),
                        Step("rpc", p, "none", call)>>)

\* Page::hit_test and Page::get_nodes_under_mouse.
do_hit_test(s, p, call) ==
    IF frame[p] = None THEN Fail(s)
    ELSE IF frame[p] = FrameNoRoot THEN Return(s, "None")
    ELSE Push(s, <<Step("layout", p, "none", "none"),
                   Step("rpc", p, "none", call)>>)

\* A call on layout_rpc: the script task waits for the answer.
do_rpc(s, p, call) == [s EXCEPT !.task = "blocked_rpc", !.cur.result = call]

Exec(st, s) ==
    CASE st.k = "join_layout" -> do_join_layout(s, st.p)
      [] st.k = "dispatch" -> do_dispatch(s, st.p, st.goal, st.q)
      [] st.k = "reflow" -> do_reflow(s, st.p, st.goal, st.q)
      [] st.k = "flush_layout" -> do_flush_layout(s, st.p, st.q)
      [] st.k = "layout" -> do_layout(s, st.p)
      [] st.k = "content_query" -> do_content_query(s, st.p, st.q)
      [] st.k = "hit_test" -> do_hit_test(s, st.p, st.q)
      [] st.k = "rpc" -> do_rpc(s, st.p, st.q)
      [] st.k = "return" -> Return(s, st.q)

\* The script task runs until it suspends, fails, or the operation returns.
RECURSIVE Run(_)
Run(s) ==
    IF s.task # "running" THEN s
    ELSE IF s.cont = <<>> THEN [s EXCEPT !.task = "idle"]
    ELSE Run(Exec(Head(s.cont), [s EXCEPT !.cont = Tail(@)]))

\* The script task calls an operation of Page p.
Call(op, p, goal, q, st) ==
    /\ task = "idle"
    /\ Commit(Run([S EXCEPT !.task = "running",
                            !.cont = <<st>>,
                            !.cur = [op |-> op, page |-> p, goal |-> goal, q |-> q,
                                     damaged0 |-> damaged[p], frame0 |-> frame[p],
                                     port0 |-> layout_join_port[p],
                                     avoided0 |-> avoided_reflows[p],
                                     sent |-> <<>>, waited |-> FALSE,
                                     result |-> "unit"]]))

MayDispatch(p) == Len(chans) < MaxReflows
RECURSIVE Total(_, _)
Total(f, P) ==
    IF P = {} THEN 0
    ELSE LET x == CHOOSE x \in P : TRUE IN f[x] + Total(f, P \ {x})
MayAvoid(p) == Total(avoided_reflows, Pages) < MaxAvoided

join_layout(p) ==
    Call("join_layout", p, "none", "none", Step("join_layout", p, "none", "none"))

reflow(p, goal, q) ==
    /\ MayDispatch(p)
    /\ Call("reflow", p, goal, q, Step("reflow", p, goal, q))

flush_layout(p, q) ==
    /\ MayDispatch(p) /\ MayAvoid(p)
    /\ Call("flush_layout", p, "none", q, Step("flush_layout", p, "none", q))

layout(p) ==
    /\ MayDispatch(p) /\ MayAvoid(p)
    /\ Call("layout", p, "none", NoQuery, Step("layout", p, "none", "none"))

content_box_query(p) ==
    /\ MayDispatch(p) /\ MayAvoid(p)
    /\ Call("content_box_query", p, "none", ContentBoxQuery,
            Step("content_query", p, "none", ContentBoxQuery))

content_boxes_query(p) ==
    /\ MayDispatch(p) /\ MayAvoid(p)
    /\ Call("content_boxes_query", p, "none", ContentBoxesQuery,
            Step("content_query", p, "none", ContentBoxesQuery))

hit_test(p) ==
    /\ MayDispatch(p) /\ MayAvoid(p)
    /\ Call("hit_test", p, "none", NoQuery, Step("hit_test", p, "none", "hit_test"))

get_nodes_under_mouse(p) ==
    /\ MayDispatch(p) /\ MayAvoid(p)
    /\ Call("get_nodes_under_mouse", p, "none", NoQuery,
            Step("hit_test", p, "none", "mouse_over"))

\* What is left of cur after a step that is not the script task's operation.
Forget == IF task = "idle" THEN NoCall ELSE cur

\* Page::damage.
damage(p) ==
    /\ task = "idle"
    /\ damaged' = [damaged EXCEPT ![p] = TRUE]
    /\ cur' = NoCall
    /\ UNCHANGED <<pages, frame, url, last_reflow_id, avoided_reflows, pending_reflows,
                   layout_join_port, layout_chan, layout_task, chans, compositor,
                   task, cont, wait, treevars, fontvars>>

\* The script task loads a document into the Page (mut_url, then mut_frame),
\* the document gains or loses its root element, or the frame is taken away.
\* Frames change in the one-Page configuration only: with two Pages both
\* documents stay as loaded.
load(p, f) ==
    /\ task = "idle"
    /\ pages = {p}
    /\ frame[p] # f
    /\ frame' = [frame EXCEPT ![p] = f]
    /\ url' = [url EXCEPT ![p] = @ \/ f # None]
    /\ cur' = NoCall
    /\ UNCHANGED <<pages, damaged, last_reflow_id, avoided_reflows, pending_reflows,
                   layout_join_port, layout_chan, layout_task, chans, compositor,
                   task, cont, wait, treevars, fontvars>>

\* join_layout's blocking recv() returns the completion signal.
join_recv ==
    /\ task = "blocked_join"
    /\ chans[wait].st = "signalled"
    /\ Commit(Run([S EXCEPT !.task = "running", !.chans[wait].st = "received",
                            !.wait = 0]))

\* join_layout's blocking recv() finds the sender gone: the task fails.
join_disconnected ==
    /\ task = "blocked_join"
    /\ chans[wait].st = "dropped"
    /\ Commit(Fail(S))

\* The LayoutRPC call returns; hit_test and mouse_over may answer Err(()).
rpc_return(ok) ==
    /\ task = "blocked_rpc"
    /\ ok \/ cur.result \in {"hit_test", "mouse_over"}
    /\ Commit(Run([S EXCEPT !.task = "running",
                            !.cur.result = IF ~ok THEN "None"
                                           ELSE IF @ \in {"hit_test", "mouse_over"}
                                                THEN "Some" ELSE "Rect"]))

----------------------------------------------------------------------------
\* The layout task of Page p.

\* It receives the next ReflowMsg of its channel.
layout_recv(p) ==
    /\ layout_task[p].alive
    /\ layout_task[p].reflow = 0
    /\ layout_chan[p] # <<>>
    /\ layout_task' = [layout_task EXCEPT ![p].reflow = Head(layout_chan[p]).script_join_chan]
    /\ layout_chan' = [layout_chan EXCEPT ![p] = Tail(@)]
    /\ cur' = Forget
    /\ UNCHANGED <<pages, frame, url, pagevars, pending_reflows, chans, compositor,
                   task, cont, wait, treevars, fontvars>>

\* It finishes the reflow and sends () on script_join_chan.
layout_done(p) ==
    /\ layout_task[p].alive
    /\ layout_task[p].reflow # 0
    /\ chans' = [chans EXCEPT ![layout_task[p].reflow].st = "signalled"]
    /\ layout_task' = [layout_task EXCEPT ![p].reflow = 0]
    /\ cur' = Forget
    /\ UNCHANGED <<pages, frame, url, pagevars, pending_reflows, layout_chan, compositor,
                   task, cont, wait, treevars, fontvars>>

\* It terminates: every script_join_chan it holds, in hand or still queued, is
\* dropped without a value, and its end of layout_chan is closed.
layout_exit(p) ==
    /\ layout_task[p].alive
    /\ LET held == {layout_task[p].reflow} \cup
                   {layout_chan[p][i].script_join_chan : i \in 1..Len(layout_chan[p])}
       IN chans' = [c \in 1..Len(chans) |->
                       IF c \in held THEN [chans[c] EXCEPT !.st = "dropped"]
                       ELSE chans[c]]
    /\ layout_task' = [layout_task EXCEPT ![p] = [alive |-> FALSE, reflow |-> 0]]
    /\ layout_chan' = [layout_chan EXCEPT ![p] = <<>>]
    /\ cur' = Forget
    /\ UNCHANGED <<pages, frame, url, pagevars, pending_reflows, compositor,
                   task, cont, wait, treevars, fontvars>>

----------------------------------------------------------------------------
Next ==
    \/ \E p \in pages : join_layout(p)
    \/ \E p \in pages, g \in ReflowGoal, q \in ReflowQueryType : reflow(p, g, q)
    \/ \E p \in pages, q \in ReflowQueryType : flush_layout(p, q)
    \/ \E p \in pages : layout(p)
    \/ \E p \in pages : content_box_query(p)
    \/ \E p \in pages : content_boxes_query(p)
    \/ \E p \in pages : hit_test(p)
    \/ \E p \in pages : get_nodes_under_mouse(p)
    \/ \E p \in pages : damage(p)
    \/ \E p \in pages, f \in {None, FrameNoRoot, FrameRoot} : load(p, f)
    \/ join_recv
    \/ join_disconnected
    \/ \E ok \in BOOLEAN : rpc_return(ok)
    \/ \E p \in pages : layout_recv(p)
    \/ \E p \in pages : layout_done(p)
    \/ \E p \in pages : layout_exit(p)

Spec == Init /\ [][Next]_vars
SpecPages == (Init \/ InitPages) /\ [][Next]_vars

----------------------------------------------------------------------------
\* The tree of Pages.  Page 1 is the root the script task holds; a Page
\* taken out of the tree by remove stays alive with its subtree, held by the
\* caller.  The tree is not changed while a PageIterator is in use: the
\* iterator is dropped by the next find, remove or insertion.

\* The first index of seq whose Page has the id (0: none): the
\* enumerate().find() of Page::remove.
RECURSIVE position(_, _, _)
position(seq, id, i) ==
    IF i > Len(seq) THEN 0
    ELSE IF page_id[seq[i]] = id THEN i
    ELSE position(seq, id, i + 1)

\* Vec::remove(idx).
vec_remove(seq, idx) == SubSeq(seq, 1, idx - 1) \o SubSeq(seq, idx + 1, Len(seq))

\* find that looks at all the children before it descends into any.
RECURSIVE do_find_children_first(_, _)
RECURSIVE do_find_children_first_in(_, _)
do_find_children_first(n, id) ==
    IF page_id[n] = id THEN n
    ELSE IF position(children[n], id, 1) # 0
         THEN children[n][position(children[n], id, 1)]
         ELSE do_find_children_first_in(children[n], id)
do_find_children_first_in(seq, id) ==
    IF seq = <<>> THEN 0
    ELSE LET found == do_find_children_first(Head(seq), id)
         IN IF found # 0 THEN found
            ELSE do_find_children_first_in(Tail(seq), id)

\* IterablePage::find on Page n: the Page found (0: None).
RECURSIVE do_find(_, _)
RECURSIVE do_find_in(_, _)
do_find(n, id) ==
    IF page_id[n] = id THEN n ELSE do_find_in(children[n], id)

\* The loop of find over the children, from the first on.
do_find_in(seq, id) ==
    IF seq = <<>> THEN 0
    ELSE LET found == do_find(Head(seq), id)
         IN IF found # 0 THEN found ELSE do_find_in(Tail(seq), id)

\* remove that gives back the Page it is called on when the id is its own.
RECURSIVE do_remove_self_too(_, _, _)
RECURSIVE do_remove_self_too_in(_, _, _, _)
do_remove_self_too(ch, n, id) ==
    IF page_id[n] = id THEN [children |-> ch, value |-> n]
    ELSE LET idx == position(ch[n], id, 1)
         IN IF idx # 0
            THEN [children |-> [ch EXCEPT ![n] = vec_remove(@, idx)],
                  value |-> ch[n][idx]]
            ELSE do_remove_self_too_in(ch, n, id, 1)
do_remove_self_too_in(ch, n, id, i) ==
    IF i > Len(ch[n]) THEN [children |-> ch, value |-> 0]
    ELSE LET found == do_remove_self_too(ch, ch[n][i], id)
         IN IF found.value # 0 THEN found
            ELSE do_remove_self_too_in(ch, n, id, i + 1)

\* remove that looks at the immediate children only.
do_remove_immediate_only(ch, n, id) ==
    LET idx == position(ch[n], id, 1)
    IN IF idx # 0
       THEN [children |-> [ch EXCEPT ![n] = vec_remove(@, idx)],
             value |-> ch[n][idx]]
       ELSE [children |-> ch, value |-> 0]

\* remove that returns the Page with the id and leaves it in the tree.
do_remove_detaches_nothing(ch, n, id) ==
    LET found == do_find(n, id)
    IN [children |-> ch, value |-> IF found = n THEN 0 ELSE found]

\* Page::remove on Page n, the child lists being ch: the child lists it
\* leaves and the Page it returns (0: None).
RECURSIVE do_remove(_, _, _)
RECURSIVE do_remove_in(_, _, _, _)
do_remove(ch, n, id) ==
    LET idx == position(ch[n], id, 1)
    IN IF idx # 0
       THEN [children |-> [ch EXCEPT ![n] = vec_remove(@, idx)],
             value |-> ch[n][idx]]
       ELSE do_remove_in(ch, n, id, 1)

\* The loop of remove over the children, from the i-th on.
do_remove_in(ch, n, id, i) ==
    IF i > Len(ch[n]) THEN [children |-> ch, value |-> 0]
    ELSE LET found == do_remove(ch, ch[n][i], id)
         IN IF found.value # 0 THEN found
            ELSE do_remove_in(ch, n, id, i + 1)

\* next that pushes the children of the popped Page last child first.
do_next_pushes_reversed(st) ==
    LET n == st[Len(st)]
        c == children[n]
    IN [stack |-> SubSeq(st, 1, Len(st) - 1) \o
                  [i \in 1..Len(c) |-> c[Len(c) + 1 - i]],
        value |-> n]

\* PageIterator::next on a stack that is not empty: pop, push the children
\* of the popped Page in stored order, yield it.
do_next(st) ==
    LET n == st[Len(st)]
    IN [stack |-> SubSeq(st, 1, Len(st) - 1) \o children[n], value |-> n]

\* The Pages of the tree rooted at n, self first, then the subtree of each
\* child in stored order.
RECURSIVE Preorder(_)
RECURSIVE PreorderAll(_)
Preorder(n) == <<n>> \o PreorderAll(children[n])
PreorderAll(seq) ==
    IF seq = <<>> THEN <<>> ELSE Preorder(Head(seq)) \o PreorderAll(Tail(seq))

Range(seq) == {seq[i] : i \in 1..Len(seq)}
Subtree(n) == Range(Preorder(n))

\* The script task finds a Page by id, from Page self.
find(self, id) ==
    /\ tree_op' = [NoTreeOp EXCEPT !.op = "find", !.self = self, !.id = id,
                                   !.value = do_find(self, id)]
    /\ stack' = <<>>
    /\ UNCHANGED <<children, page_id, protocolvars, fontvars>>

\* The script task removes a Page by id, from Page self.
remove(self, id) ==
    LET r == do_remove(children, self, id)
    IN /\ children' = r.children
       /\ tree_op' = [NoTreeOp EXCEPT
                         !.op = "remove", !.self = self, !.id = id,
                         !.value = r.value,
                         !.parent = IF r.value \in Subtree(self) \ {self}
                                    THEN CHOOSE m \in Nodes :
                                             r.value \in Range(children[m])
                                    ELSE 0]
       /\ stack' = <<>>
       /\ UNCHANGED <<page_id, protocolvars, fontvars>>

\* iter() on Page self.
iter(self) ==
    /\ stack' = <<self>>
    /\ tree_op' = [NoTreeOp EXCEPT !.op = "iter", !.self = self]
    /\ UNCHANGED <<children, page_id, protocolvars, fontvars>>

\* PageIterator::next: Some(Page), or None once the stack is empty.
next ==
    /\ tree_op.op \in {"iter", "next"}
    /\ \/ /\ stack # <<>>
          /\ stack' = do_next(stack).stack
          /\ tree_op' = [tree_op EXCEPT !.op = "next",
                                        !.value = do_next(stack).value,
                                        !.yielded = Append(@, do_next(stack).value)]
       \/ /\ stack = <<>>
          /\ tree_op.value # 0 \/ tree_op.op = "iter"
          /\ stack' = stack
          /\ tree_op' = [tree_op EXCEPT !.op = "next", !.value = 0]
    /\ UNCHANGED <<children, page_id, protocolvars, fontvars>>

\* The script task constructs a Page with the pipeline id and pushes it onto
\* the children of a Page of the tree.
push_child(parent, id) ==
    /\ \E n \in Nodes :
          /\ page_id[n] = None
          /\ \A k \in Nodes : k < n => page_id[k] # None
          /\ page_id' = [page_id EXCEPT ![n] = id]
          /\ children' = [children EXCEPT ![parent] = Append(@, n)]
    /\ stack' = <<>>
    /\ tree_op' = NoTreeOp
    /\ UNCHANGED <<protocolvars, fontvars>>

\* The root Page, constructed with no children.  The pipeline ids being
\* interchangeable, the root has the first of them.
InitTree ==
    /\ New({"p1"}, None) /\ NewFontContext
    /\ children = [n \in Nodes |-> <<>>]
    /\ page_id = [n \in Nodes |-> IF n = 1 THEN "a" ELSE None]
    /\ stack = <<>>
    /\ tree_op = NoTreeOp

NextTree ==
    \/ \E self \in Subtree(1), id \in Ids : find(self, id)
    \/ \E self \in Subtree(1), id \in Ids : remove(self, id)
    \/ \E self \in Subtree(1) : iter(self)
    \/ next
    \/ \E parent \in Subtree(1), id \in Ids : push_child(parent, id)

SpecTree == InitTree /\ [][NextTree]_vars

----------------------------------------------------------------------------
\* The FontContext of a layout task.

SMALL_CAPS_SCALE_FACTOR == "0.8"

\* Au::scale_by.
scale_by(pt_size, factor) == <<pt_size, factor>>

\* FontTemplateDescriptor::new.
FontTemplateDescriptor(weight, italic) == [weight |-> weight, italic |-> italic]

\* FontCacheTask::get_font_template: Some(template) for the families of
\* templates, the families the font cache task has a font for.
get_font_template(templates, family, desc) ==
    IF family \in templates THEN Some([family |-> family, desc |-> desc])
    ELSE NoneOpt

\* FontCacheTask::get_last_resort_font_template: always a template.
get_last_resort_font_template(desc) == [family |-> "last resort", desc |-> desc]

\* FontHandleMethods::new_from_template(..).unwrap(): the platform makes a
\* handle of every template the font cache task supplies.
new_from_template(template, pt_size) == [template |-> template, pt_size |-> pt_size]

\* FontContext::create_layout_font.
create_layout_font(template, descriptor, pt_size, variant) ==
    LET actual_pt_size == IF variant = "small_caps"
                          THEN scale_by(pt_size, SMALL_CAPS_SCALE_FACTOR)
                          ELSE pt_size
    IN [handle |-> new_from_template(template, actual_pt_size),
        variant |-> variant,
        descriptor |-> descriptor,
        requested_pt_size |-> pt_size,
        actual_pt_size |-> actual_pt_size]

\* The test a cached font passes to be used for the style.
font_matches(font, desc, style) ==
    /\ font.descriptor = desc
    /\ font.requested_pt_size = style.font_size
    /\ font.variant = style.font_variant

\* The search of layout_font_cache for a family, from entry i on: whether
\* an entry was hit, and the font it gives (None for a negative entry).
RECURSIVE layout_cache_lookup(_, _, _, _, _)
layout_cache_lookup(cache, family, desc, style, i) ==
    IF i > Len(cache) THEN [cache_hit |-> FALSE, font |-> NoneOpt]
    ELSE IF cache[i].family = family /\ cache[i].font = NoneOpt
         THEN [cache_hit |-> TRUE, font |-> NoneOpt]
    ELSE IF cache[i].family = family /\ font_matches(cache[i].font[1], desc, style)
         THEN [cache_hit |-> TRUE, font |-> cache[i].font]
    ELSE layout_cache_lookup(cache, family, desc, style, i + 1)

\* The search of fallback_font_cache, from entry i on (None: no entry).
RECURSIVE fallback_cache_lookup(_, _, _, _)
fallback_cache_lookup(cache, desc, style, i) ==
    IF i > Len(cache) THEN NoneOpt
    ELSE IF font_matches(cache[i].font, desc, style) THEN Some(cache[i].font)
    ELSE fallback_cache_lookup(cache, desc, style, i + 1)

\* The loop over the families of the style, from the i-th on: fc with the
\* entries it pushes, fonts with the fonts it finds or creates, yields with
\* what each family gave.
RECURSIVE family_loop(_, _, _, _, _, _, _)
family_loop(fc, fonts, yields, style, desc, templates, i) ==
    IF i > Len(style.font_family) THEN [fc |-> fc, fonts |-> fonts, yields |-> yields]
    ELSE LET family == style.font_family[i]
             cached == layout_cache_lookup(fc.layout_font_cache, family, desc, style, 1)
             font_template == get_font_template(templates, family, desc)
             layout_font == create_layout_font(font_template[1], desc,
                                               style.font_size, style.font_variant)
         IN IF cached.cache_hit
            THEN family_loop(fc,
                             IF cached.font = NoneOpt THEN fonts
                             ELSE Append(fonts, cached.font[1]),
                             Append(yields, IF cached.font = NoneOpt
                                            THEN "negative entry"
                                            ELSE "cached font"),
                             style, desc, templates, i + 1)
            ELSE IF font_template # NoneOpt
            THEN family_loop([fc EXCEPT !.layout_font_cache =
                                 Append(@, [family |-> family,
                                            font |-> Some(layout_font)])],
                             Append(fonts, layout_font),
                             Append(yields, "new font"),
                             style, desc, templates, i + 1)
            ELSE family_loop([fc EXCEPT !.layout_font_cache =
                                 Append(@, [family |-> family, font |-> NoneOpt])],
                             fonts, Append(yields, "no template"),
                             style, desc, templates, i + 1)

\* The FontContext, as a record.
FC == [layout_font_cache |-> layout_font_cache,
       fallback_font_cache |-> fallback_font_cache,
       last_style |-> last_style, last_fontgroup |-> last_fontgroup,
       font_op |-> font_op]

\* The end of get_layout_font_group_for_style: the group is stored with the
\* style and returned.
store_group(fc, style, yields, fonts) ==
    [fc EXCEPT !.last_style = Some(style), !.last_fontgroup = Some(fonts),
               !.font_op = [style |-> Some(style), hit |-> FALSE, yields |-> yields,
                            group |-> fonts]]

\* get_layout_font_group_for_style that makes the group of what the families
\* give and never looks for a last-resort font.
do_get_layout_font_group_without_fallback(fc, style, same, templates) ==
    IF same
    THEN [fc EXCEPT !.font_op = [style |-> Some(style), hit |-> TRUE,
                                 yields |-> <<>>, group |-> fc.last_fontgroup[1]]]
    ELSE LET desc == FontTemplateDescriptor(style.font_weight,
                                            style.font_style = "italic")
             l == family_loop(fc, <<>>, <<>>, style, desc, templates, 1)
         IN store_group(l.fc, style, l.yields, l.fonts)

\* FontContext::get_layout_font_group_for_style; same: the style is the Arc
\* the FontContext holds in last_style.
do_get_layout_font_group_for_style(fc, style, same, templates) ==
    IF same
    THEN [fc EXCEPT !.font_op = [style |-> Some(style), hit |-> TRUE,
                                 yields |-> <<>>, group |-> fc.last_fontgroup[1]]]
    ELSE LET desc == FontTemplateDescriptor(style.font_weight,
                                            style.font_style = "italic")
             l == family_loop(fc, <<>>, <<>>, style, desc, templates, 1)
             cached == fallback_cache_lookup(l.fc.fallback_font_cache, desc, style, 1)
             layout_font == create_layout_font(get_last_resort_font_template(desc),
                                               desc, style.font_size,
                                               style.font_variant)
         IN IF Len(l.fonts) # 0 THEN store_group(l.fc, style, l.yields, l.fonts)
            ELSE IF cached # NoneOpt
            THEN store_group(l.fc, style, l.yields, <<cached[1]>>)
            ELSE store_group([l.fc EXCEPT !.fallback_font_cache =
                                 Append(@, [font |-> layout_font])],
                             style, l.yields, <<layout_font>>)

\* The layout task asks for the font group of a style: the Arc it holds in
\* last_style, or another one; templates are the families the font cache
\* task has a font for at the time.
get_layout_font_group_for_style(style, same, templates) ==
    /\ same => last_style = Some(style)
    /\ \E fc \in {do_get_layout_font_group_for_style(FC, style, same, templates)} :
          /\ Len(fc.layout_font_cache) <= MaxFonts
          /\ Len(fc.fallback_font_cache) <= MaxFonts
          /\ layout_font_cache' = fc.layout_font_cache
          /\ fallback_font_cache' = fc.fallback_font_cache
          /\ last_style' = fc.last_style
          /\ last_fontgroup' = fc.last_fontgroup
          /\ font_op' = fc.font_op
    /\ UNCHANGED <<protocolvars, treevars, font_cache_task>>

InitFont == New({"p1"}, None) /\ NoTree /\ NewFontContext

NextFont ==
    \E style \in Styles, same \in BOOLEAN, templates \in SUBSET Families :
        get_layout_font_group_for_style(style, same, templates)

SpecFont == InitFont /\ [][NextFont]_vars

\* The descriptors of the styles, and what a steady font cache task may have
\* templates for.
Descriptors == {FontTemplateDescriptor(v[1], v[2] = "italic") : v \in StyleValues}
TemplateKeys == Families \X Descriptors

\* The descriptor get_layout_font_group_for_style asks templates for.
descriptor_of(style) ==
    FontTemplateDescriptor(style.font_weight, style.font_style = "italic")

\* The families a font cache task with the templates t has a template for
\* at the descriptor.
templates_at(t, desc) == {f \in Families : <<f, desc>> \in t}

\* A FontContext on a font cache task that answers the same lookup the same
\* way every time: what it has templates for is fixed when the FontContext
\* is made.
InitSteady ==
    /\ New({"p1"}, None) /\ NoTree
    /\ font_cache_task \in SUBSET TemplateKeys
    /\ layout_font_cache = <<>>
    /\ fallback_font_cache = <<>>
    /\ last_style = NoneOpt
    /\ last_fontgroup = NoneOpt
    /\ font_op = NoFontOp

NextSteady ==
    \E style \in Styles, same \in BOOLEAN :
        get_layout_font_group_for_style(
            style, same, templates_at(font_cache_task, descriptor_of(style)))

SpecSteady == InitSteady /\ [][NextSteady]_vars

----------------------------------------------------------------------------
\* Definitions the properties below are stated with.

\* The completion channels of Page p whose ReflowMsg was sent and whose value
\* the Page has not received.
InFlight(p) ==
    {c \in 1..Len(chans) :
        chans[c].owner = p /\ chans[c].st \in {"pending", "signalled", "dropped"}}

\* The operation op has just returned normally.
Returned(op) == task = "idle" /\ cur.op = op

\* The step is the script task calling op on Page p.
Calls(op, p) == task = "idle" /\ cur'.op = op /\ cur'.page = p

Geometry == {ContentBoxQuery, ContentBoxesQuery}

\* What a step leaves alone when it neither dispatches, joins nor counts.
NoDispatchNoJoin ==
    UNCHANGED <<damaged, last_reflow_id, layout_join_port, layout_chan, chans,
                compositor>>

\* C1: a Page never has more than one reflow in flight: no ReflowMsg is sent
\* while the completion signal of an earlier one of the same Page has not been
\* received by the Page.
C1_OneInFlight == \A p \in Pages : Cardinality(InFlight(p)) <= 1

\* C1 witness: reflow() was called while an earlier reflow of the Page was
\* outstanding, joined it and dispatched the Page's second request.
C1_Witness ==
    /\ Returned("reflow") /\ cur.port0 # 0 /\ Len(cur.sent) = 1
    /\ last_reflow_id[cur.page] = 2
    /\ Cardinality(InFlight(cur.page)) = 1

C3_Original ==
    (Returned("flush_layout") /\ cur.q \in Geometry) =>
        /\ Len(cur.sent) = 1
        /\ cur.sent[1].goal = IF cur.damaged0 THEN ReflowForDisplay
                              ELSE ReflowForScriptQuery
        /\ cur.sent[1].query_type = cur.q

\* C3 as amended: a flush_layout(q) with a geometry query q that returns, on a
\* Page whose frame's document has a root element, has dispatched exactly one
\* request, with goal ReflowForScriptQuery when damaged was false at the call
\* and ReflowForDisplay when it was true, and with query_type = q; on a Page
\* whose document has no root element it returns having dispatched nothing.
C3_FlushGeometry ==
    (Returned("flush_layout") /\ cur.q \in Geometry) =>
        IF cur.frame0 = FrameRoot
        THEN /\ Len(cur.sent) = 1
             /\ cur.sent[1].goal = IF cur.damaged0 THEN ReflowForDisplay
                                   ELSE ReflowForScriptQuery
             /\ cur.sent[1].query_type = cur.q
             /\ cur.sent[1].id = last_reflow_id[cur.page]
        ELSE cur.frame0 = FrameNoRoot /\ cur.sent = <<>>

\* C3 witness: a flush_layout(ContentBoxesQuery) on a damaged Page with a
\* document root has returned after dispatching.
C3_Witness ==
    /\ Returned("flush_layout") /\ cur.q = ContentBoxesQuery
    /\ cur.damaged0 /\ cur.frame0 = FrameRoot /\ Len(cur.sent) = 1

\* C4: flush_layout(NoQuery) on an undamaged Page returns at once, adds one
\* to avoided_reflows and changes nothing else: no message, no compositor
\* notification, damaged, last_reflow_id and layout_join_port as they were.
C4_FlushSkips ==
    [][\A p \in Pages :
          (Calls("flush_layout", p) /\ cur'.q = NoQuery /\ ~damaged[p]) =>
              /\ task' = "idle"
              /\ avoided_reflows' = [avoided_reflows EXCEPT ![p] = @ + 1]
              /\ cur'.sent = <<>>
              /\ NoDispatchNoJoin]_vars

\* C4 witness: the skipped flush found a reflow outstanding and left its port
\* in place.
C4_Witness ==
    /\ Returned("flush_layout") /\ cur.q = NoQuery /\ ~cur.damaged0
    /\ cur.port0 # 0 /\ layout_join_port[cur.page] = cur.port0
    /\ avoided_reflows[cur.page] = 2

C7_FlushNoFrame ==
    (/\ cur.op = "flush_layout" /\ cur.frame0 = None
     /\ (cur.damaged0 \/ cur.q \in Geometry)) => task # "failed"

\* C8: join_layout() returns only once the completion signal of the
\* outstanding reflow has been received, leaving no port; a join_layout()
\* that finds no port (as one that follows a join_layout() directly does)
\* returns at once, without suspending or receiving, and changes nothing.
C8_JoinIdempotent ==
    /\ [](Returned("join_layout") =>
             /\ layout_join_port[cur.page] = 0
             /\ cur.port0 # 0 => chans[cur.port0].st = "received"
             /\ cur.port0 = 0 => ~cur.waited)
    /\ [][\A p \in Pages :
             (/\ Calls("join_layout", p)
              /\ layout_join_port[p] = 0 \/ (cur.op = "join_layout" /\ cur.page = p)) =>
                 /\ task' = "idle"
                 /\ ~cur'.waited
                 /\ avoided_reflows' = avoided_reflows
                 /\ NoDispatchNoJoin]_vars

\* C8 witness: a join_layout() that found no port has returned on a Page
\* whose earlier reflow had been joined.
C8_Witness ==
    /\ Returned("join_layout") /\ cur.port0 = 0
    /\ last_reflow_id[cur.page] > 0
    /\ \E c \in 1..Len(chans) : chans[c].owner = cur.page /\ chans[c].st = "received"

\* C9: a completion channel whose sender was dropped without a value is never
\* joined normally: its port is still in the Page, or join_layout is suspended
\* on it, or the script task has failed; and once the script task has failed
\* it stays failed and no operation of a Page runs.
C9_DisconnectFatal ==
    /\ [](\A c \in 1..Len(chans) :
             chans[c].st = "dropped" =>
                 \/ layout_join_port[chans[c].owner] = c
                 \/ task = "blocked_join" /\ wait = c
                 \/ task = "failed")
    /\ [][(task = "blocked_join" /\ chans[wait].st = "dropped") =>
             task' \in {"blocked_join", "failed"}]_vars
    /\ [][task = "failed" =>
             /\ task' = "failed"
             /\ UNCHANGED <<pagevars, compositor, cur, cont>>]_vars

\* C9 witness: join_layout() failed in its blocking recv(), the sender having
\* been dropped while it was suspended.
C9_Witness ==
    /\ task = "failed" /\ cur.op = "join_layout" /\ cur.waited
    /\ chans[cur.port0].st = "dropped"

\* C10 as claimed: reflow() never suspends.
C10_Original == cur.op = "reflow" => task \notin {"blocked_join", "blocked_rpc"}

\* C10 as amended: reflow() never waits for the request it dispatches.  It
\* suspends only in its initial join_layout, before it has sent anything,
\* and only when an earlier reflow of the same Page is outstanding whose
\* completion signal has not arrived; called with no port it does not
\* suspend.  The script task suspends nowhere but in join_layout's recv()
\* and in LayoutRPC calls, and reflow() makes no LayoutRPC call.
C10_ReflowSuspends ==
    /\ cur.op = "reflow" => task # "blocked_rpc"
    /\ (cur.op = "reflow" /\ task = "blocked_join") =>
          /\ cur.port0 # 0 /\ wait = cur.port0
          /\ chans[wait].owner = cur.page
          /\ cur.sent = <<>>
    /\ (cur.op = "reflow" /\ cur.port0 = 0) => ~cur.waited
    /\ task = "blocked_join" => layout_join_port[cur.page] = 0 /\ wait # 0

\* C10 witness: reflow() is suspended on the earlier reflow of its Page.
C10_Witness ==
    /\ cur.op = "reflow" /\ task = "blocked_join"
    /\ chans[wait].st = "pending"

\* The ReflowMsgs Page p has sent, each named by its completion channel.
Sent(p) == {c \in 1..Len(chans) : chans[c].owner = p /\ chans[c].st # "closed"}

RpcOps == {"content_box_query", "content_boxes_query", "hit_test",
           "get_nodes_under_mouse"}
HitOps == {"hit_test", "get_nodes_under_mouse"}

\* C11: a LayoutRPC call (content_box, content_boxes, hit_test, mouse_over) is
\* made only by the four query operations and only after the flush of that
\* query and the join that follows it: while the call is in progress the
\* Page has no port, every ReflowMsg it has sent has been joined, and the
\* request the query itself dispatched (if any) is among them.
C11_RpcAfterJoin ==
    task = "blocked_rpc" =>
        /\ cur.op \in RpcOps
        /\ layout_join_port[cur.page] = 0
        /\ InFlight(cur.page) = {}
        /\ \A c \in Sent(cur.page) : chans[c].st = "received"
        /\ \A i \in 1..Len(cur.sent) :
               chans[cur.sent[i].script_join_chan].st = "received"

\* C11 witness: hit_test() on a damaged Page dispatched a reflow, waited for
\* it in join_layout and is now in the hit_test RPC.
C11_Witness ==
    /\ task = "blocked_rpc" /\ cur.op = "hit_test" /\ cur.result = "hit_test"
    /\ cur.damaged0 /\ Len(cur.sent) = 1 /\ cur.waited

\* C12: hit_test() and get_nodes_under_mouse() never abort the script task
\* on a query miss.  When the LayoutRPC call answers Err the operation
\* returns None and the task goes on; on a document with no root element the
\* operation returns None at once, without flushing (avoided_reflows is not
\* counted), dispatching, joining or calling LayoutRPC.
C12_QueryMiss ==
    /\ [][(task = "blocked_rpc" /\ cur.op \in HitOps /\ task' # "blocked_rpc") =>
             /\ task' = "idle"
             /\ cur'.result \in {"Some", "None"}
             /\ UNCHANGED <<pagevars, compositor, chans>>]_vars
    /\ [][\A p \in Pages :
             ((Calls("hit_test", p) \/ Calls("get_nodes_under_mouse", p))
                 /\ frame[p] = FrameNoRoot) =>
                 /\ task' = "idle"
                 /\ cur'.result = "None"
                 /\ cur'.sent = <<>> /\ ~cur'.waited
                 /\ avoided_reflows' = avoided_reflows
                 /\ NoDispatchNoJoin]_vars

\* C12 witness: get_nodes_under_mouse() has returned None after the
\* mouse_over RPC, made after a dispatched and joined reflow, answered Err.
C12_Witness ==
    /\ Returned("get_nodes_under_mouse") /\ cur.result = "None"
    /\ cur.frame0 = FrameRoot /\ Len(cur.sent) = 1

\* The step sends a ReflowMsg of Page p.
Dispatches(p) == Sent(p)' # Sent(p)

\* C13: while the script task is alive, damaged is true exactly when damage()
\* has been called since the Page's last dispatched request, or since
\* construction: it is false at construction, damage() makes it true, the
\* dispatch of a request makes it false, and no other step changes it; so a
\* damage() made while a request is outstanding keeps it true through the
\* completion and the join, until the next dispatch, and join_layout never
\* changes it.
C13_Damaged ==
    /\ \A p \in Pages : ~damaged[p]
    /\ [][\A p \in Pages :
             /\ damage(p) => damaged'[p]
             /\ Dispatches(p) => ~damaged'[p]
             /\ (~damage(p) /\ ~Dispatches(p) /\ task' # "failed") =>
                    damaged'[p] = damaged[p]
             /\ (cur'.op = "join_layout" /\ cur'.page = p) =>
                    damaged'[p] = damaged[p]]_vars

\* C13 witness: damage() was called while a reflow was outstanding, and a
\* join_layout() that waited for it has returned with damaged still true.
C13_Witness ==
    /\ Returned("join_layout") /\ cur.port0 # 0 /\ cur.waited
    /\ cur.damaged0 /\ damaged[cur.page]
    /\ InFlight(cur.page) = {}

\* The completion channels Page p has created, sent or not.
Created(p) == {c \in 1..Len(chans) : chans[c].owner = p}

\* C19: a dispatching reflow() joins, then notifies the compositor, stores
\* the new port, increments last_reflow_id, clears damaged and sends.  While
\* the script task is alive the notifications keyed by a Page are as many as
\* the ReflowMsgs it has sent, one before each; reflow() suspended in its
\* join has not notified yet; each send leaves the new request as the only
\* one outstanding, with its port stored (or already taken by the join_layout
\* of the same query) and damaged cleared; a send that
\* fails finds notification, port, id and damaged already done; a reflow()
\* that dispatches nothing notifies nothing.
C19_DispatchOrder ==
    /\ [](\A p \in Pages :
             /\ compositor[p] = Cardinality(Created(p))
             /\ task # "failed" => compositor[p] = Cardinality(Sent(p))
             /\ \A c \in Created(p) \ Sent(p) :
                    /\ task = "failed" /\ layout_join_port[p] = c
                    /\ last_reflow_id[p] = compositor[p] /\ ~damaged[p])
    /\ [][\A p \in Pages :
             /\ Dispatches(p) =>
                    /\ compositor'[p] = compositor[p] + 1
                    /\ InFlight(p)' = Sent(p)' \ Sent(p)
                    /\ InFlight(p)' = {IF task' = "blocked_join" THEN wait'
                                        ELSE layout_join_port'[p]}
                    /\ last_reflow_id'[p] = last_reflow_id[p] + 1
                    /\ ~damaged'[p]
             /\ (~Dispatches(p) /\ task' # "failed") =>
                    compositor'[p] = compositor[p]]_vars

\* C19 witness: reflow() found a reflow outstanding, waited for it, and then
\* made the Page's second notification and sent its second request.
C19_Witness ==
    /\ Returned("reflow") /\ cur.port0 # 0 /\ cur.waited
    /\ Len(cur.sent) = 1 /\ compositor[cur.page] = 2

\* The position of the request with completion channel c among the
\* ReflowMsgs Page p has sent.
Rank(p, c) == Cardinality({d \in Sent(p) : d <= c})

\* C20: last_reflow_id never decreases and changes only when a reflow()
\* dispatches, by +1; the request carries the new value, so the n-th
\* ReflowMsg of a Page carries id n and ids increase strictly; while the
\* script task is alive last_reflow_id is the number of ReflowMsgs sent.
C20_ReflowId ==
    /\ [](\A p \in Pages :
             /\ task # "failed" => last_reflow_id[p] = Cardinality(Sent(p))
             /\ \A i \in 1..Len(layout_chan[p]) :
                    layout_chan[p][i].id = Rank(p, layout_chan[p][i].script_join_chan)
             /\ \A i, j \in 1..Len(layout_chan[p]) :
                    i < j => layout_chan[p][i].id < layout_chan[p][j].id)
    /\ [](\A i \in 1..Len(cur.sent) :
             /\ cur.sent[i].id = Rank(cur.page, cur.sent[i].script_join_chan)
             /\ cur.sent[i].id = last_reflow_id[cur.page])
    /\ [][\A p \in Pages :
             /\ last_reflow_id'[p] >= last_reflow_id[p]
             /\ last_reflow_id'[p] # last_reflow_id[p] =>
                    /\ last_reflow_id'[p] = last_reflow_id[p] + 1
                    /\ cur'.op \in {"reflow", "flush_layout", "layout"} \cup RpcOps
                    /\ cur'.page = p
                    /\ Dispatches(p) \/ task' = "failed"]_vars

\* C20 witness: the second request of a Page, carrying id 2, is in the
\* layout task's channel.
C20_Witness ==
    \E p \in pages :
        /\ last_reflow_id[p] = 2 /\ Len(layout_chan[p]) = 1
        /\ layout_chan[p][1].id = 2 /\ Cardinality(Sent(p)) = 2

----------------------------------------------------------------------------
\* The tree of Pages.

\* The Pages of the tree rooted at n, self first, then the subtree of each
\* child from the last stored to the first.
RECURSIVE ReversePreorder(_)
RECURSIVE ReversePreorderAll(_)
ReversePreorder(n) == <<n>> \o ReversePreorderAll(children[n])
ReversePreorderAll(seq) ==
    IF seq = <<>> THEN <<>>
    ELSE ReversePreorder(seq[Len(seq)]) \o
         ReversePreorderAll(SubSeq(seq, 1, Len(seq) - 1))

\* The iterator has returned None.
Ended == tree_op.op = "next" /\ tree_op.value = 0

\* The tree rooted at r is R with children [a, b], a a leaf, b with the one
\* child c, a leaf.
Example(r, a, b, c) ==
    /\ children[r] = <<a, b>> /\ children[a] = <<>>
    /\ children[b] = <<c>> /\ children[c] = <<>>

\* C14: iter() yields the Pages of the tree in the order root, subtree of the
\* last-stored child, ..., subtree of the first-stored child: what it has
\* yielded is always the beginning of that order, its stack is empty exactly
\* when it has yielded all of it, and then it returns None; the order holds
\* every Page of the tree exactly once; on R with [A, B], B with child C, it
\* is R, B, C, A.
C14_IterOrder ==
    tree_op.op \in {"iter", "next"} =>
        LET order == ReversePreorder(tree_op.self)
            y == tree_op.yielded
        IN /\ Len(y) <= Len(order) /\ y = SubSeq(order, 1, Len(y))
           /\ (stack = <<>>) <=> (y = order)
           /\ Ended => y = order
           /\ Range(order) = Subtree(tree_op.self)
           /\ Len(order) = Cardinality(Subtree(tree_op.self))
           /\ \A a, b, c \in Nodes :
                  (Ended /\ Example(tree_op.self, a, b, c)) =>
                      y = <<tree_op.self, b, c, a>>

\* C14 witness: the iterator over R with [A, B], B with child C, has ended.
C14_Witness ==
    /\ Ended /\ tree_op.self = 1
    /\ \E a, b, c \in Nodes : Example(1, a, b, c)

\* The first Page of seq with the id (0: none).
FirstWith(seq, id) ==
    IF \E i \in 1..Len(seq) : page_id[seq[i]] = id
    THEN seq[CHOOSE i \in 1..Len(seq) :
                 /\ page_id[seq[i]] = id
                 /\ \A j \in 1..(i - 1) : page_id[seq[j]] # id]
    ELSE 0

\* The Pages of the tree rooted at n that have the id.
Holders(n, id) == {x \in Subtree(n) : page_id[x] = id}

\* C15: find(id) returns the first Page with the id in pre-order (self, then
\* the children's subtrees in stored order): the Page itself when one Page of
\* the tree has the id, None when none has; it changes nothing in the tree.
C15_Find ==
    /\ [](tree_op.op = "find" =>
             /\ tree_op.value = FirstWith(Preorder(tree_op.self), tree_op.id)
             /\ Cardinality(Holders(tree_op.self, tree_op.id)) = 1 =>
                    Holders(tree_op.self, tree_op.id) = {tree_op.value}
             /\ Holders(tree_op.self, tree_op.id) = {} => tree_op.value = 0)
    /\ [][tree_op'.op = "find" => UNCHANGED <<children, page_id>>]_vars

\* C15 witness: find returned a grandchild although a later child of self
\* has the same id.
C15_Witness ==
    /\ tree_op.op = "find" /\ tree_op.value \notin {0, tree_op.self}
    /\ tree_op.value \notin Range(children[tree_op.self])
    /\ \E x \in Range(children[tree_op.self]) : page_id[x] = tree_op.id

\* The ids of the Pages of the tree rooted at n are all different.
UniqueIds(n) == \A x, y \in Subtree(n) : page_id[x] = page_id[y] => x = y

\* The step is remove(id) called on Page s.
Removes(s, id) ==
    tree_op'.op = "remove" /\ tree_op'.self = s /\ tree_op'.id = id

\* C16: remove(id) never returns or detaches the Page it is called on; called
\* with that Page's own id on a tree of unique ids it returns None and
\* leaves every child list as it was.
C16_RemoveKeepsSelf ==
    /\ [](tree_op.op = "remove" =>
             tree_op.value # tree_op.self /\ tree_op.self \in Subtree(1))
    /\ [][\A s \in Nodes, id \in Ids :
             (Removes(s, id) /\ page_id[s] = id /\ UniqueIds(s)) =>
                 /\ tree_op'.value = 0
                 /\ UNCHANGED <<children, page_id>>]_vars

\* C16 witness: remove was called with the id of the root of a tree of three
\* Pages with unique ids, and returned None.
C16_Witness ==
    /\ tree_op.op = "remove" /\ tree_op.self = 1 /\ tree_op.id = page_id[1]
    /\ tree_op.value = 0
    /\ UniqueIds(1) /\ Cardinality(Subtree(1)) = 3

\* seq without the Page x, the others in their order.
Without(seq, x) == SelectSeq(seq, LAMBDA y : y # x)

\* C17: remove(id) on a tree where no Page other than self has the id
\* returns None and leaves every child list unchanged; where a Page other
\* than self, at any depth, has it, remove returns such a Page (the Page,
\* when the id is unique), takes it out of its parent's child list, which
\* gets shorter by one with the other children in their order, and leaves
\* every other child list, those of the returned subtree included, unchanged.
C17_Remove ==
    [][\A s \in Nodes, id \in Ids :
          Removes(s, id) =>
              LET held == Holders(s, id) \ {s}
                  r == tree_op'.value
              IN IF held = {}
                 THEN r = 0 /\ UNCHANGED <<children, page_id>>
                 ELSE /\ r \in held
                      /\ \E par \in Subtree(s) :
                            /\ r \in Range(children[par])
                            /\ Len(children'[par]) = Len(children[par]) - 1
                            /\ children'[par] = Without(children[par], r)
                            /\ \A x \in Nodes \ {par} : children'[x] = children[x]
                      /\ page_id' = page_id]_vars

\* C17 witness: remove returned a grandchild of the Page it was called on,
\* and the parent keeps another child.
C17_Witness ==
    /\ tree_op.op = "remove" /\ tree_op.value # 0
    /\ tree_op.parent \notin {0, tree_op.self}
    /\ children[tree_op.parent] # <<>>

----------------------------------------------------------------------------
\* The FontContext.

\* The font was created from the last-resort template.
LastResort(font) == font.handle.template.family = "last resort"

\* The font is one created for the style.
FontOf(font, style) ==
    font = create_layout_font(font.handle.template,
                              FontTemplateDescriptor(style.font_weight,
                                                     style.font_style = "italic"),
                              style.font_size, style.font_variant)

\* C18: get_layout_font_group_for_style always returns, and never an empty
\* group.  When it resolves the style and none of the families gives a font
\* (the font cache task has no template, or a negative cache entry is hit)
\* the group is exactly one last-resort font, made for the style; when some
\* family gives a font the group holds the fonts of those families, in the
\* order of the style, and no last-resort font; when the style is the Arc in
\* last_style the group is the one returned for it before.
C18_FontGroup ==
    /\ [](font_op.style # NoneOpt =>
             /\ font_op.group # <<>>
             /\ last_style # NoneOpt /\ last_fontgroup = Some(font_op.group)
             /\ ~font_op.hit =>
                    LET style == font_op.style[1]
                        given == {i \in 1..Len(font_op.yields) :
                                     font_op.yields[i] \in {"cached font", "new font"}}
                    IN /\ Len(font_op.yields) = Len(style.font_family)
                       /\ \A i \in 1..Len(font_op.group) :
                              FontOf(font_op.group[i], style)
                       /\ IF given = {}
                          THEN /\ Len(font_op.group) = 1
                               /\ LastResort(font_op.group[1])
                          ELSE /\ Len(font_op.group) = Cardinality(given)
                               /\ \A i \in 1..Len(font_op.group) :
                                      /\ ~LastResort(font_op.group[i])
                                      /\ \E j \in given :
                                             /\ font_op.group[i].handle.template.family
                                                    = style.font_family[j]
                                             /\ Cardinality({k \in given : k <= j}) = i)
    /\ [](\A style \in Styles, templates \in SUBSET Families :
             (Len(layout_font_cache) + Len(style.font_family) <= MaxFonts
                 /\ Len(fallback_font_cache) < MaxFonts) =>
                 ENABLED get_layout_font_group_for_style(style, FALSE, templates))
    /\ [](last_style # NoneOpt =>
             ENABLED get_layout_font_group_for_style(last_style[1], TRUE, {}))

\* C18 witness: a style of two families, of which the first hit a negative
\* cache entry and the font cache task had no template for the second, got
\* the last-resort font.
C18_Witness ==
    /\ font_op.style # NoneOpt /\ ~font_op.hit
    /\ font_op.yields = <<"negative entry", "no template">>
    /\ Len(font_op.group) = 1 /\ LastResort(font_op.group[1])

\* ---------------------------------------------------------------------------
\* C21 as stated: over any sequence of operations neither pending_reflows nor
\* avoided_reflows of a Page ever decreases.
C21_Original ==
    [][\A p \in pages :
          /\ pending_reflows'[p] >= pending_reflows[p]
          /\ avoided_reflows'[p] >= avoided_reflows[p]]_vars

\* C21: pending_reflows is never written after construction, and
\* avoided_reflows never decreases except that a reflow() which passes its
\* frame and root checks sets it back to 0 (line 344); any other step leaves it
\* alone or adds exactly one.
C21_Counters ==
    /\ \A p \in pages : pending_reflows[p] = 0
    /\ [][\A p \in pages :
             /\ pending_reflows'[p] = pending_reflows[p]
             /\ \/ avoided_reflows'[p] = avoided_reflows[p]
                \/ avoided_reflows'[p] = avoided_reflows[p] + 1
                \/ /\ avoided_reflows'[p] = 0
                   /\ task = "idle" /\ cur'.page = p
                   /\ frame[p] = FrameRoot
                   /\ \/ cur'.op = "reflow"
                      \/ cur'.damaged0
                      \/ cur'.op \in {"flush_layout", "content_box_query",
                                      "content_boxes_query"}
                         /\ cur'.q \in Geometry]_vars

\* A reflow() that found the counter above zero has returned and left it at 0.
C21_Witness ==
    /\ Returned("reflow") /\ cur.avoided0 > 0
    /\ avoided_reflows[cur.page] = 0
    /\ pending_reflows[cur.page] = 0

\* ---------------------------------------------------------------------------
\* The step is a call whose flush_layout skips the reflow of Page p: the Page
\* is not damaged and the query is NoQuery.
Skips(p) ==
    /\ Calls(cur'.op, p) /\ ~damaged[p]
    /\ \/ cur'.op = "layout"
       \/ cur'.op = "flush_layout" /\ cur'.q = NoQuery
       \/ cur'.op \in HitOps /\ frame[p] = FrameRoot

\* The step is a call that runs reflow() of Page p past its frame and root
\* checks but has not sent the request when the step ends: it waits in the
\* join of the previous reflow, or the script task has failed.
ResetsOnly(p) ==
    /\ Calls(cur'.op, p) /\ frame[p] = FrameRoot
    /\ task' \in {"blocked_join", "failed"}
    /\ \/ cur'.op = "reflow"
       \/ damaged[p] /\ cur'.op \in {"flush_layout", "layout"} \cup RpcOps
       \/ cur'.op \in {"flush_layout", "content_box_query", "content_boxes_query"}
          /\ cur'.q \in Geometry

\* C22 as stated: in every reachable state avoided_reflows is the number of
\* skipped flush_layout calls since the Page's last dispatched reflow: a step
\* that dispatches makes it 0, a skipping flush_layout adds one, and no other
\* step changes it (steps in which the script task fails set aside).
C22_Original ==
    [][\A p \in pages :
          task' # "failed" =>
              avoided_reflows'[p] =
                  IF Dispatches(p) THEN 0
                  ELSE IF Skips(p) THEN avoided_reflows[p] + 1
                  ELSE avoided_reflows[p]]_vars

\* C22: avoided_reflows counts the flush_layout calls that skipped the reflow
\* since the last reflow() of the Page that passed its frame and root checks:
\* such a reflow() sets it to 0 before it joins and dispatches, so the count
\* is that since the last dispatched reflow whenever the script task is
\* neither waiting in reflow()'s join nor failed; a reflow() that is a no-op
\* leaves it alone.
C22_Avoided ==
    /\ \A p \in pages :
          task = "blocked_join" /\ cur.page = p /\ cur.op # "join_layout"
             => avoided_reflows[p] = 0
    /\ [][\A p \in pages :
             /\ avoided_reflows'[p] =
                   IF Dispatches(p) \/ ResetsOnly(p) THEN 0
                   ELSE IF Skips(p) THEN avoided_reflows[p] + 1
                   ELSE avoided_reflows[p]
             /\ Calls("reflow", p) /\ frame[p] # FrameRoot
                   => avoided_reflows'[p] = avoided_reflows[p]]_vars

\* A flush_layout found the counter above zero, waited for the previous
\* reflow, dispatched its own and has returned with the counter at 0.
C22_Witness ==
    /\ Returned("flush_layout") /\ cur.avoided0 > 0
    /\ cur.waited /\ Len(cur.sent) = 1
    /\ avoided_reflows[cur.page] = 0

\* ---------------------------------------------------------------------------
\* The protocol with a layout worker that keeps its promise: it never exits,
\* it eventually takes every ReflowMsg off its channel and signals its
\* completion, and every LayoutRPC call is eventually answered; a recv() whose
\* value has arrived returns.
NextLive ==
    \/ \E p \in pages : join_layout(p)
    \/ \E p \in pages, g \in ReflowGoal, q \in ReflowQueryType : reflow(p, g, q)
    \/ \E p \in pages, q \in ReflowQueryType : flush_layout(p, q)
    \/ \E p \in pages : layout(p)
    \/ \E p \in pages : content_box_query(p)
    \/ \E p \in pages : content_boxes_query(p)
    \/ \E p \in pages : hit_test(p)
    \/ \E p \in pages : get_nodes_under_mouse(p)
    \/ \E p \in pages : damage(p)
    \/ \E p \in pages, f \in {None, FrameNoRoot, FrameRoot} : load(p, f)
    \/ join_recv
    \/ \E ok \in BOOLEAN : rpc_return(ok)
    \/ \E p \in pages : layout_recv(p)
    \/ \E p \in pages : layout_done(p)

Fairness ==
    /\ \A p \in Pages : WF_vars(layout_recv(p)) /\ WF_vars(layout_done(p))
    /\ WF_vars(join_recv)
    /\ WF_vars(\E ok \in BOOLEAN : rpc_return(ok))

SpecLive == Init /\ [][NextLive]_vars /\ Fairness

LiveOps == {"join_layout", "reflow", "layout", "content_box_query",
            "content_boxes_query", "hit_test", "get_nodes_under_mouse"}

\* C23 as stated: with a layout worker that eventually signals completion of
\* every ReflowMsg and eventually answers every LayoutRPC call, every call of
\* join_layout, reflow, layout, content_box_query, content_boxes_query,
\* hit_test and get_nodes_under_mouse eventually returns.
C23_EveryCallReturns ==
    \A op \in LiveOps : (task # "idle" /\ cur.op = op) ~> Returned(op)

\* C23, the part that holds: there is no timeout, a call that waits in
\* join_layout's recv() leaves it only when the worker has signalled
\* completion on that channel or has dropped the sender, and with the worker
\* above every call that waits, in the join or in a LayoutRPC call, returns.
C23_WaitsEnd ==
    /\ [][task = "blocked_join" /\ task' # "blocked_join"
             => chans[wait].st \in {"signalled", "dropped"}]_vars
    /\ \A op \in LiveOps :
          (task \in {"blocked_join", "blocked_rpc"} /\ cur.op = op) ~> Returned(op)

\* A call has failed instead of returning: the script task is gone.
C23_Aborted == task = "failed" /\ cur.op \in LiveOps

\* ---------------------------------------------------------------------------
\* The Pages an iterator with the stack st yields until it returns None.
RECURSIVE Iterate(_)
Iterate(st) ==
    IF st = <<>> THEN <<>>
    ELSE LET r == do_next(st) IN <<r.value>> \o Iterate(r.stack)

\* C24: on a tree of unique ids, for an id other than that of the Page s the
\* operations are called on, remove(id) returns the Page find(id) returned
\* just before (None when find returned None); afterwards find(id) returns
\* None, iter() yields what it yielded before without the Pages of the removed
\* subtree, the others in their order, and a second remove(id) returns None
\* and changes nothing.
C24_RemoveFind ==
    [][\A s \in Nodes, id \in Ids :
          (Removes(s, id) /\ UniqueIds(s) /\ page_id[s] # id) =>
              LET found == do_find(s, id)
                  before == Iterate(<<s>>)
                  gone == IF found = 0 THEN {} ELSE Subtree(found)
              IN /\ tree_op'.value = found
                 /\ do_find(s, id)' = 0
                 /\ Iterate(<<s>>)' = SelectSeq(before, LAMBDA x : x \notin gone)
                 /\ do_remove(children', s, id) =
                        [children |-> children', value |-> 0]]_vars

\* C24 witness: on a tree of unique ids remove has returned a Page that has a
\* child of its own.
C24_Witness ==
    /\ tree_op.op = "remove" /\ tree_op.value # 0
    /\ page_id[tree_op.self] # tree_op.id
    /\ children[tree_op.value] # <<>>
    /\ \A x, y \in Subtree(tree_op.self) \cup Subtree(tree_op.value) :
          page_id[x] = page_id[y] => x = y

\* ---------------------------------------------------------------------------
\* A FontContext with empty caches.
EmptyFC == [layout_font_cache |-> <<>>, fallback_font_cache |-> <<>>,
            last_style |-> NoneOpt, last_fontgroup |-> NoneOpt,
            font_op |-> NoFontOp]

\* The group a FontContext with empty caches returns for the style.
FreshGroup(style) ==
    do_get_layout_font_group_for_style(
        EmptyFC, style, FALSE,
        templates_at(font_cache_task, descriptor_of(style))).font_op.group

\* What the claim compares of a group: the family, descriptor, requested
\* size and variant of each font, in order.
Shape(group) ==
    [i \in 1..Len(group) |->
        [family |-> group[i].handle.template.family,
         descriptor |-> group[i].descriptor,
         requested_pt_size |-> group[i].requested_pt_size,
         variant |-> group[i].variant]]

\* C25 as stated: with a font cache task that answers the same lookup the same
\* way every time, the group returned for a style has fonts for the same
\* families, with the same descriptor, requested size and variant, as a
\* FontContext with empty caches returns for the style; a family of the style
\* is missing from the group only if the font cache task has no template for
\* it at the descriptor of the call.
C25_Transparent ==
    font_op.style # NoneOpt =>
        LET style == font_op.style[1]
        IN /\ Shape(font_op.group) = Shape(FreshGroup(style))
           /\ \A i \in 1..Len(style.font_family) :
                 (\A j \in 1..Len(font_op.group) :
                     font_op.group[j].handle.template.family # style.font_family[i])
                 => <<style.font_family[i], descriptor_of(style)>> \notin font_cache_task

\* A family was left out on a negative cache entry although the font cache
\* task has a template for it at the descriptor of the call.
C25_StaleNegative ==
    /\ font_op.style # NoneOpt /\ ~font_op.hit
    /\ \E i \in 1..Len(font_op.yields) :
          /\ font_op.yields[i] = "negative entry"
          /\ <<font_op.style[1].font_family[i], descriptor_of(font_op.style[1])>>
                 \in font_cache_task

====
